---- MODULE Spec2Model ----
(***************************************************************************)
(* The wallet ledger of the Pino Whisper backend, in its two drafts:       *)
(*   "mem"  src/server.js          in-memory Map, float balance, 3 decimals *)
(*   "db"   src/unnamed/part_000   Postgres table, integer award/spend      *)
(* A deployment runs one draft; `variant` is fixed in the initial state.   *)
(*                                                                         *)
(* Strings are sequences of one-character strings, over printable ASCII and *)
(* the white space that a string here can hold.  A JavaScript number is in  *)
(* ten-thousandths (n ticks for the binary64 nearest to n / 10000), one     *)
(* digit finer than the DECIMALS the ledger rounds to; where a sum falls    *)
(* on a tie of toFixed(3) the rounding errors of the binary64 values        *)
(* decide, computed exactly for magnitudes below 8.0.  SHA-256 is computed, *)
(* and an address is the cut of the digest that the code makes, so two      *)
(* passphrases may share an address.                                        *)
(***************************************************************************)
EXTENDS Integers, Sequences, FiniteSets, Bags, TLC

VARIABLES
  variant,    \* "mem" | "db": which draft is deployed
  wallets,    \* mem: the Map wallets, key (mnemonic hash) -> wallet object
  rows,       \* db: the rows of table wallets
  inflight,   \* db: handlers suspended at an await between two queries (a bag)
  last,       \* the most recently completed request and its response
  accesses,   \* how many times the handler that `last` answers went to the store
  body,       \* the JSON body of the response that `last` describes
  scope,      \* "wallet" | "clash" | "wall": the requests that are issued
  wallPosts,  \* mem: the array wallPosts
  nextWallId, \* mem: the counter nextWallId
  whispers,   \* db: the rows of table whispers, in the order of their INSERT
  whispersTable, \* db: CREATE TABLE IF NOT EXISTS whispers has run
  emitted,    \* mem: what io.emit has sent, in order
  sockets,    \* mem: how many socket.io clients are connected
  clock       \* the reading of the clock (new Date(), now())

wallVars == <<wallPosts, nextWallId, whispers, whispersTable, emitted, sockets, clock>>
vars == <<variant, wallets, rows, inflight, last, accesses, body, scope, wallVars>>

(***************************** bounds **************************************)
MaxBal == 1        \* award/earn is not issued past this many whole coins
MaxInFlight == 2   \* handlers suspended between two queries at one time
MaxPosts == 51     \* posts on the wall
MaxFree == 1       \* the first MaxFree posts take any body, later ones the plain one
MaxTied == 2       \* only the first MaxTied posts may share a clock reading
MaxSockets == 1    \* connected socket.io clients
MaxBack == 2       \* how far below the last reading a reading of the clock can be

(************************* program constants *******************************)
START_BALANCE_COINS == 1
DECIMALS == 3
NEED_WORDS == 12
ALIAS_MAX == 64
NICK_MAX == 24
RADIX == 10
LIMIT == 50
TEXT_MAX == 500
WALL_NICK_MAX == 40

Unit == RADIX ^ (DECIMALS + 1)          \* ticks per 1.0
START_BALANCE == START_BALANCE_COINS * Unit

(***************************** JSON values *********************************)
JStr(s) == [t |-> "str", s |-> s, n |-> 0]
JNum(n) == [t |-> "num", s |-> <<>>, n |-> n]
JNone == [t |-> "none", s |-> <<>>, n |-> 0]
\* JSON.parse("1e999") and JSON.parse("-1e999"): Infinity and -Infinity
JInf(sign) == [t |-> "inf", s |-> <<>>, n |-> sign]

\* JavaScript truthiness of a body field
Truthy(v) ==
  CASE v.t = "str" -> v.s # <<>>
    [] v.t = "num" -> v.n # 0
    [] v.t = "inf" -> TRUE
    [] OTHER -> FALSE

\* v || d
OrElse(v, d) == IF Truthy(v) THEN v ELSE d

(****************************** strings ************************************)
Min(a, b) == IF a <= b THEN a ELSE b
Abs(n) == IF n < 0 THEN -n ELSE n

\* the white space of String.prototype.trim, of \s and of parseInt: space,
\* tab, line feed, vertical tab (U+000B), form feed and carriage return, and
\* beyond ASCII the no-break space (U+00A0), the ogham space mark (U+1680)
\* and the byte order mark (U+FEFF), in this order after the space.  The
\* rest of the white space of JavaScript (U+2000 to U+200A, U+2028, U+2029,
\* U+202F, U+205F, U+3000) cannot be written in a string here.
IsWs(c) == c \in {" ", "\t", "\n", "", "\f", "\r", " ", " ", "﻿"}

RECURSIVE TrimStart(_)
TrimStart(s) ==
  IF s # <<>> /\ IsWs(Head(s)) THEN TrimStart(Tail(s)) ELSE s

RECURSIVE TrimEnd(_)
TrimEnd(s) ==
  IF s # <<>> /\ IsWs(s[Len(s)]) THEN TrimEnd(SubSeq(s, 1, Len(s) - 1)) ELSE s

\* String.prototype.trim
Trim(s) == TrimEnd(TrimStart(s))

\* String.prototype.slice(0, n)
Slice0(s, n) == SubSeq(s, 1, Min(n, Len(s)))

\* s.split(/\s+/): cut at every maximal run of whitespace; a run at either
\* end leaves an empty first or last piece, and "" splits to [""].
RECURSIVE SkipWs(_, _)
SkipWs(s, i) == IF i <= Len(s) /\ IsWs(s[i]) THEN SkipWs(s, i + 1) ELSE i

RECURSIVE SkipWord(_, _)
SkipWord(s, i) == IF i <= Len(s) /\ ~IsWs(s[i]) THEN SkipWord(s, i + 1) ELSE i

\* the pieces of s from index i on, a piece beginning at i
RECURSIVE SplitFrom(_, _)
SplitFrom(s, i) ==
  LET j == SkipWord(s, i)
  IN IF j > Len(s) THEN <<SubSeq(s, i, Len(s))>>
     ELSE <<SubSeq(s, i, j - 1)>> \o SplitFrom(s, SkipWs(s, j))

SplitWs(s) == SplitFrom(s, 1)

\* .filter(Boolean) on an array of strings
FilterBoolean(a) == SelectSeq(a, LAMBDA w : w # <<>>)

RECURSIVE JoinSp(_)
JoinSp(a) ==
  IF a = <<>> THEN <<>>
  ELSE IF Len(a) = 1 THEN a[1]
  ELSE a[1] \o <<" ">> \o JoinSp(Tail(a))

(************************ numbers and strings ******************************)
DigitChars == <<"0", "1", "2", "3", "4", "5", "6", "7", "8", "9">>
IsDigit(c) == \E i \in 1..Len(DigitChars) : DigitChars[i] = c
DigitVal(c) == (CHOOSE i \in 1..Len(DigitChars) : DigitChars[i] = c) - 1

RECURSIVE NatToStr(_)
NatToStr(k) ==
  IF k < RADIX THEN <<DigitChars[k + 1]>>
  ELSE NatToStr(k \div RADIX) \o <<DigitChars[(k % RADIX) + 1]>>

\* the fraction's digits, most significant first, without trailing zeros
RECURSIVE FracToStr(_, _)
FracToStr(f, scale) ==
  IF f = 0 THEN <<>>
  ELSE <<DigitChars[(f \div (scale \div RADIX)) + 1]>>
         \o FracToStr(f % (scale \div RADIX), scale \div RADIX)

\* String(n) for a number n given in ticks: "-1", "2", "2.5", "0.0004"
NumToStr(n) ==
  LET a == Abs(n)
      f == a % Unit
  IN (IF n < 0 THEN <<"-">> ELSE <<>>)
       \o NatToStr(a \div Unit)
       \o (IF f = 0 THEN <<>> ELSE <<".">> \o FracToStr(f, Unit))

Infinity == <<"I", "n", "f", "i", "n", "i", "t", "y">>

\* String(v) of a body field that is a string or a number
ToStr(v) ==
  CASE v.t = "num" -> NumToStr(v.n)
    [] v.t = "inf" -> (IF v.n < 0 THEN <<"-">> ELSE <<>>) \o Infinity
    [] OTHER -> v.s

RECURSIVE DigitPrefix(_)
DigitPrefix(s) ==
  IF s # <<>> /\ IsDigit(Head(s)) THEN <<Head(s)>> \o DigitPrefix(Tail(s)) ELSE <<>>

RECURSIVE DigitsVal(_, _)
DigitsVal(d, acc) ==
  IF d = <<>> THEN acc ELSE DigitsVal(Tail(d), acc * RADIX + DigitVal(Head(d)))

NaN == [nan |-> TRUE, n |-> 0]
Number(n) == [nan |-> FALSE, n |-> n]

\* parseInt(v, 10): String(v), leading whitespace and one sign skipped, then
\* the longest prefix of digits; NaN when there is none.  In ticks.
ParseInt(v) ==
  LET s == TrimStart(ToStr(v))
      neg == s # <<>> /\ Head(s) = "-"
      u == IF s # <<>> /\ Head(s) \in {"-", "+"} THEN Tail(s) ELSE s
      d == DigitPrefix(u)
  IN IF d = <<>> THEN NaN
     ELSE Number((IF neg THEN -1 ELSE 1) * DigitsVal(d, 0) * Unit)

\* Math.max(0, x): NaN stays NaN
MathMax0(x) == IF x.nan THEN NaN ELSE IF x.n < 0 THEN Number(0) ELSE x

\* Math.max(0, parseInt(req.body?.amount || 0, 10))
ParseAmount(v) == MathMax0(ParseInt(OrElse(v, JNum(0))))

\* !amount
BadAmount(x) == x.nan \/ x.n = 0

(**************************** binary64 **************************************)
\* A Number is the binary64 nearest to its decimal, and toFixed rounds the
\* binary64: where the decimal sum is a tie of toFixed(DECIMALS), the side
\* the binary64 sum lies on decides.  The binary64 of k ticks is
\* (|k| * 2^e + Err) / (Unit * 2^e) with e = Mantissa + Binade, and only the
\* remainders modulo Unit are needed to tell the side.  (For values below
\* 8.0, so that every intermediate fits the 32 bits of the checker.)
Mantissa == 52

\* the j with Unit <= k * 2^j < 2 * Unit, for k > 0, searched from j
RECURSIVE Binade(_, _)
Binade(k, j) ==
  IF j >= 0 /\ k * (2 ^ j) < Unit THEN Binade(k, j + 1)
  ELSE IF j <= 0 /\ k >= 2 * Unit * (2 ^ (-j)) THEN Binade(k, j - 1)
  ELSE j

\* 2^e modulo m
RECURSIVE PowMod(_, _)
PowMod(e, m) == IF e = 0 THEN 1 % m ELSE (2 * PowMod(e - 1, m)) % m

\* of k * 2^e = q * Unit + r, for k >= 0: r, and whether q is odd
Scaled(k, e) ==
  << ((k % Unit) * PowMod(e, Unit)) % Unit,
     ((k % (2 * Unit)) * PowMod(e, 2 * Unit)) % (2 * Unit) >= Unit >>

\* the nearest multiple of g to w, a tie to the even one (odd: the multiples
\* are counted from an odd one)
Nearest(w, g, odd) ==
  LET m == w \div g
      rem == w % g
      up == rem > g - rem \/ (rem = g - rem /\ ((m % 2 = 1) # odd))
  IN (IF up THEN m + 1 ELSE m) * g

\* what rounding k ticks to binary64 adds, in units of 1 / (Unit * 2^e)
ErrOf(s) ==
  IF s[1] > Unit \div 2 \/ (s[1] = Unit \div 2 /\ s[2]) THEN Unit - s[1] ELSE -s[1]

Err(k) ==
  IF k = 0 THEN 0
  ELSE (IF k < 0 THEN -1 ELSE 1) * ErrOf(Scaled(Abs(k), Mantissa + Binade(Abs(k), 0)))

\* x + y in binary64, for x + y > 0: is the result at or above the decimal
\* sum kx + ky?  ex, ey, et: the binades of x, y and the sum
SumNotBelow(kx, ky, ex, ey, et) ==
  LET t == kx + ky
      E == IF ex >= ey THEN ex ELSE ey
      D == Err(kx) * (2 ^ (E - ex)) + Err(ky) * (2 ^ (E - ey))
  IN IF et >= E THEN D >= 0       \* the sum is exact
     ELSE LET sh == 2 ^ (E - et)
              st == Scaled(t, Mantissa + et)
              P == st[1] * sh     \* the decimal sum, from the grid point below it
              w == P + D          \* the sum of the two binary64
          IN IF st[1] = 0 /\ w < 0 /\ et >= 0 /\ t * (2 ^ et) = Unit
               \* below a power of two the grid is twice as fine
               THEN Nearest(w, (Unit * sh) \div 2, FALSE) >= P
               ELSE Nearest(w, Unit * sh, st[2]) >= P

\* Number((x + y).toFixed(DECIMALS)) for the Numbers of kx and ky ticks
ToFixedSum(kx, ky) ==
  LET t == kx + ky
      sign == IF t < 0 THEN -1 ELSE 1
      a == Abs(t)
      step == Unit \div (RADIX ^ DECIMALS)
      half == step \div 2
      bx == Binade(Abs(IF kx = 0 THEN ky ELSE kx), 0)
      by == Binade(Abs(IF ky = 0 THEN kx ELSE ky), 0)
  IN IF a % step # half THEN sign * ((a + half) \div step) * step
     ELSE IF SumNotBelow(sign * kx, sign * ky, bx, by, Binade(a, 0))
       THEN sign * (a + half)     \* toFixed: of two nearest, the larger
       ELSE sign * (a - half)

\* Number(x.toFixed(DECIMALS)) for the Number of n ticks
ToFixedNumber(n) == ToFixedSum(n, 0)

(***************************** inputs **************************************)
Letters == <<"a", "b", "c", "d", "e", "f", "g", "h", "i", "j", "k", "l", "m">>
Phrase(n) == JoinSp([i \in 1..n |-> <<Letters[i]>>])   \* "a b c ..." of n words

P11 == Phrase(NEED_WORDS - 1)
P13 == Phrase(NEED_WORDS + 1)

\* two phrases of 12 words, different in the last, that addrFromPhrase gives
\* one address (PW-BA4D9C52CD)
P12 == P11 \o <<" ", "w", "p", "4", "0", "t">>
SamePhrase == P11 \o <<" ", "w", "1", "2", "u", "m", "e">>
P12pad == <<"", " ">> \o P12 \o <<"\r", "\n", " ">>

Amy == <<"a", "m", "y">>
BobPad == <<" ", "b", "o", "b", " ">>
Guest == <<"G", "u", "e", "s", "t">>

WORDS ==
  << <<"m", "o", "o", "n">>,
     <<"s", "e", "e", "d">>,
     <<"w", "i", "s", "h">>,
     <<"d", "r", "e", "a", "m">>,
     <<"s", "o", "f", "t">>,
     <<"c", "a", "l", "m">>,
     <<"g", "e", "n", "t", "l", "e">>,
     <<"l", "e", "a", "f">>,
     <<"r", "i", "v", "e", "r">>,
     <<"s", "t", "o", "n", "e">>,
     <<"d", "a", "w", "n">>,
     <<"g", "l", "o", "w">>,
     <<"q", "u", "i", "e", "t">>,
     <<"p", "e", "t", "a", "l">>,
     <<"s", "p", "a", "r", "k">>,
     <<"n", "i", "g", "h", "t">>,
     <<"h", "o", "n", "e", "y">>,
     <<"m", "o", "s", "s">>,
     <<"c", "l", "o", "u", "d">>,
     <<"g", "a", "r", "d", "e", "n">>,
     <<"c", "o", "t", "t", "o", "n">>,
     <<"f", "e", "a", "t", "h", "e", "r">>,
     <<"l", "i", "g", "h", "t">>,
     <<"e", "m", "b", "e", "r">>,
     <<"g", "o", "l", "d">>,
     <<"w", "h", "i", "s", "p", "e", "r">>,
     <<"s", "p", "r", "o", "u", "t">>,
     <<"b", "r", "e", "e", "z", "e">>,
     <<"s", "h", "e", "l", "l">>,
     <<"c", "a", "n", "y", "o", "n">>,
     <<"s", "t", "a", "r">>,
     <<"b", "r", "a", "n", "c", "h">>,
     <<"c", "a", "n", "d", "l", "e">>,
     <<"m", "i", "n", "t">>,
     <<"b", "a", "m", "b", "o", "o">>,
     <<"p", "e", "a", "r", "l">> >>

\* genWords(n): byte x at index i (from 0) picks WORDS[(x + i) % WORDS.length]
genWords(bytes) ==
  [i \in 1..Len(bytes) |-> WORDS[((bytes[i] + (i - 1)) % Len(WORDS)) + 1]]

\* randomBytes(12): two draws that differ in every byte
GenBytes == {[i \in 1..NEED_WORDS |-> 0], [i \in 1..NEED_WORDS |-> Len(WORDS)]}
GenPhrase == JoinSp(genWords([i \in 1..NEED_WORDS |-> 0]))

(************************ the requests clients send ************************)
Seven == JNum(7 * Unit)

\* The requests to the Postgres draft are followed in two scopes: "wallet",
\* with one passphrase of 12 words and every kind of payload, and "clash",
\* with the two passphrases that share an address and plain payloads.
Clash == scope = "clash"

DbNicknames ==
  IF Clash THEN {JStr(Amy), JStr(BobPad)} ELSE {JStr(Amy), JStr(BobPad), JNone}
DbMnemonics ==
  IF Clash THEN {JStr(P12), JStr(SamePhrase)} ELSE {JStr(P12pad), JStr(P11), Seven}
DbAliases == IF Clash THEN {} ELSE {JNone, Seven}
\* (the import of a generated phrase is followed in GenSpec, so that here a
\* wallet with generated words is one that generate made)
DbImportWords ==
  IF Clash THEN {JStr(P12), JStr(SamePhrase)} ELSE {JStr(P12pad), JStr(P13), Seven}
DbAmounts ==
  IF Clash THEN {JNum(Unit)}
  ELSE {JNum(Unit), JNum((3 * Unit) \div 2), JNum(-Unit), JStr(<<"", "1", "x">>),
        JStr(<<"x">>), JNone, JInf(1)}

MemNicknames == {JStr(Amy), JStr(BobPad), JNone, Seven}
MemMnemonics == {JStr(P12pad), JStr(P11), JStr(<<" ">>), Seven}
\* (Unit - 5: 0.9995, which added to 0 or taken from 1.0 is a tie of toFixed)
MemAmounts ==
  {JNum(Unit), JNum(Unit - 4), JNum(4), JNum(Unit - 5), JNum(0), JNum(-Unit),
   JStr(<<"1">>), JNone, JInf(1), JInf(-1)}

GenPhrases == {JoinSp(genWords(b)) : b \in GenBytes}

(****************************** SHA-256 ************************************)
\* crypto.createHash("sha256").update(s).digest("hex"), computed (FIPS 180-4)
\* on the UTF-8 bytes of the string.  A 32-bit word is the pair of its high
\* and low 16 bits.
\* the printable characters from the space to "_", and from "a" to "~" (the
\* grave accent between them cannot be written in a string here)
AsciiLow ==
  <<
     " ", "!", "\"", "#", "$", "%", "&", "'", "(", ")", "*", "+", ",", "-", ".", "/",
     "0", "1", "2", "3", "4", "5", "6", "7", "8", "9", ":", ";", "<", "=", ">", "?",
     "@", "A", "B", "C", "D", "E", "F", "G", "H", "I", "J", "K", "L", "M", "N", "O",
     "P", "Q", "R", "S", "T", "U", "V", "W", "X", "Y", "Z", "[", "\\", "]", "^", "_" >>

AsciiHigh ==
  <<
     "a", "b", "c", "d", "e", "f", "g", "h", "i", "j", "k", "l", "m", "n", "o", "p",
     "q", "r", "s", "t", "u", "v", "w", "x", "y", "z", "{", "|", "}", "~" >>

\* the UTF-8 bytes of a character: one byte for ASCII (U+000B is 11), two
\* for U+00A0 and three for U+1680 and U+FEFF
CharCode(c) ==
  CASE c = "\t" -> <<9>>
    [] c = "\n" -> <<10>>
    [] c = "" -> <<11>>
    [] c = "\f" -> <<12>>
    [] c = "\r" -> <<13>>
    [] c = " " -> <<194, 160>>
    [] c = " " -> <<225, 154, 128>>
    [] c = "﻿" -> <<239, 187, 191>>
    [] \E i \in 1..Len(AsciiHigh) : AsciiHigh[i] = c ->
         <<96 + (CHOOSE i \in 1..Len(AsciiHigh) : AsciiHigh[i] = c)>>
    [] OTHER -> <<31 + (CHOOSE i \in 1..Len(AsciiLow) : AsciiLow[i] = c)>>

\* the first 32 bits of the fractional parts of the cube roots of the first
\* 64 primes, and of the square roots of the first 8
RoundK ==
  <<
     <<17034, 12184>>, <<28983, 17553>>, <<46528, 64463>>, <<59829, 56229>>,
     <<14678, 49755>>, <<23025, 4593>>, <<37439, 33444>>, <<43804, 24277>>,
     <<55303, 43672>>, <<4739, 23297>>, <<9265, 34238>>, <<21772, 32195>>,
     <<29374, 23924>>, <<32990, 45566>>, <<39900, 1703>>, <<49563, 61812>>,
     <<58523, 27073>>, <<61374, 18310>>, <<4033, 40390>>, <<9228, 41420>>,
     <<11753, 11375>>, <<19060, 33962>>, <<23728, 43484>>, <<30457, 35034>>,
     <<38974, 20818>>, <<43057, 50797>>, <<45059, 10184>>, <<48985, 32711>>,
     <<50912, 3059>>, <<54695, 37191>>, <<1738, 25425>>, <<5161, 10599>>,
     <<10167, 2693>>, <<11803, 8504>>, <<19756, 28156>>, <<21304, 3347>>,
     <<25866, 29524>>, <<30314, 2747>>, <<33218, 51502>>, <<37490, 11397>>,
     <<41663, 59553>>, <<43034, 26187>>, <<49739, 35696>>, <<51052, 20899>>,
     <<53650, 59417>>, <<54937, 1572>>, <<62478, 13701>>, <<4202, 41072>>,
     <<6564, 49430>>, <<7735, 27656>>, <<10056, 30540>>, <<13488, 48309>>,
     <<14620, 3251>>, <<20184, 43594>>, <<23452, 51791>>, <<26670, 28659>>,
     <<29839, 33518>>, <<30885, 25455>>, <<33992, 30740>>, <<36039, 520>>,
     <<37054, 65530>>, <<42064, 27883>>, <<48889, 41975>>, <<50801, 30962>> >>

InitialHash ==
  <<
     <<27145, 58983>>, <<47975, 44677>>, <<15470, 62322>>, <<42319, 62778>>,
     <<20750, 21119>>, <<39685, 26764>>, <<8067, 55723>>, <<23520, 52505>> >>

\* a bitwise function of three n-bit numbers: exclusive or, choose, majority
RECURSIVE BitMix(_, _, _, _, _)
BitMix(f, a, b, c, n) ==
  IF n = 0 THEN 0
  ELSE 2 * BitMix(f, a \div 2, b \div 2, c \div 2, n - 1)
       + (CASE f = "xor" -> (a + b + c) % 2
            [] f = "ch" -> IF a % 2 = 1 THEN b % 2 ELSE c % 2
            [] f = "maj" -> IF (a % 2) + (b % 2) + (c % 2) >= 2 THEN 1 ELSE 0)

Mix(f, x, y, z) ==
  <<BitMix(f, x[1], y[1], z[1], 16), BitMix(f, x[2], y[2], z[2], 16)>>

\* x rotated right by n bits, and shifted right by n < 16 bits
Rotr(x, n) ==
  LET y == IF n >= 16 THEN <<x[2], x[1]>> ELSE x
      m == n % 16
  IN << (y[1] \div (2 ^ m)) + (y[2] % (2 ^ m)) * (2 ^ (16 - m)),
        (y[2] \div (2 ^ m)) + (y[1] % (2 ^ m)) * (2 ^ (16 - m)) >>

Shr(x, n) ==
  << x[1] \div (2 ^ n), (x[2] \div (2 ^ n)) + (x[1] % (2 ^ n)) * (2 ^ (16 - n)) >>

\* x + y modulo 2^32
Add(x, y) ==
  << (x[1] + y[1] + ((x[2] + y[2]) \div (2 ^ 16))) % (2 ^ 16), (x[2] + y[2]) % (2 ^ 16) >>

\* the functions Sigma (three rotations) and sigma (two rotations, a shift)
Sigma(x, a, b, c, shift) ==
  Mix("xor", Rotr(x, a), Rotr(x, b), IF shift THEN Shr(x, c) ELSE Rotr(x, c))

\* the message schedule: 16 words expanded to 64
RECURSIVE Expand(_)
Expand(w) ==
  IF Len(w) >= Len(RoundK) THEN w
  ELSE Expand(Append(w,
         Add(Add(Sigma(w[Len(w) - 1], 17, 19, 10, TRUE), w[Len(w) - 6]),
             Add(Sigma(w[Len(w) - 14], 7, 18, 3, TRUE), w[Len(w) - 15]))))

\* one round, from its two temporaries
Step(s, t1, t2) ==
  <<Add(t1, t2), s[1], s[2], s[3], Add(s[4], t1), s[5], s[6], s[7]>>

RECURSIVE Rounds(_, _, _)
Rounds(s, w, i) ==
  IF Len(s) = 0 \/ i > Len(RoundK) THEN s
  ELSE Rounds(Step(s,
                   Add(Add(Add(s[8], Sigma(s[5], 6, 11, 25, FALSE)),
                           Add(Mix("ch", s[5], s[6], s[7]), RoundK[i])),
                       w[i]),
                   Add(Sigma(s[1], 2, 13, 22, FALSE), Mix("maj", s[1], s[2], s[3]))),
              w, i + 1)

\* the hash after one more block of 16 words
AddAll(h, r) ==
  <<Add(h[1], r[1]), Add(h[2], r[2]), Add(h[3], r[3]), Add(h[4], r[4]),
    Add(h[5], r[5]), Add(h[6], r[6]), Add(h[7], r[7]), Add(h[8], r[8])>>

RECURSIVE Blocks(_, _)
Blocks(h, words) ==
  IF words = <<>> THEN h
  ELSE Blocks(AddAll(h, Rounds(h, Expand(SubSeq(words, 1, 16)), 1)),
              SubSeq(words, 17, Len(words)))

\* the message padded: a 1 bit, zeros, and the length in bits in 64 bits
Padded(bytes) ==
  bytes \o <<128>> \o [i \in 1..((119 - Len(bytes)) % 64) |-> 0]
    \o <<0, 0, 0, 0>>
    \o [i \in 1..4 |-> ((8 * Len(bytes)) \div (256 ^ (4 - i))) % 256]

WordsOf(bytes) ==
  SubSeq([i \in 1..(Len(bytes) \div 4) |->
            <<bytes[4 * i - 3] * 256 + bytes[4 * i - 2],
              bytes[4 * i - 1] * 256 + bytes[4 * i]>>], 1, Len(bytes) \div 4)

HexDigits ==
  <<"0", "1", "2", "3", "4", "5", "6", "7", "8", "9", "a", "b", "c", "d", "e", "f">>

RECURSIVE Hex(_, _)
Hex(v, n) ==
  IF n = 0 THEN <<>> ELSE Hex(v \div 16, n - 1) \o <<HexDigits[(v % 16) + 1]>>

RECURSIVE HexOf(_)
HexOf(h) ==
  IF h = <<>> THEN <<>> ELSE Hex(h[1][1], 4) \o Hex(h[1][2], 4) \o HexOf(Tail(h))

SHA256(s) ==
  LET RECURSIVE Utf8(_)
      Utf8(t) == IF t = <<>> THEN <<>> ELSE CharCode(Head(t)) \o Utf8(Tail(t))
  IN HexOf(Blocks(InitialHash, WordsOf(Padded(Utf8(s)))))

\* String.prototype.toUpperCase, of ASCII
LowerCase == SubSeq(AsciiHigh, 1, 26)
UpperCase == SubSeq(AsciiLow, 34, 59)
ToUpperCase(s) ==
  [i \in 1..Len(s) |->
     IF \E k \in 1..Len(LowerCase) : LowerCase[k] = s[i]
       THEN UpperCase[CHOOSE k \in 1..Len(LowerCase) : LowerCase[k] = s[i]]
       ELSE s[i]]

\* String.prototype.padEnd(n, c)
PadEnd(s, n, c) == s \o [i \in 1..(n - Min(n, Len(s))) |-> c]

\* the digests of the strings that requests carry, computed once
Hashed ==
  {Trim(m.s) : m \in {x \in MemMnemonics : x.t = "str"}} \cup {<<"?">>}
    \cup {m \o <<"|", "v", "1">> : m \in {P12, SamePhrase, P11}}
    \cup {m \o <<"|", "v", "1">> : m \in GenPhrases}
Digests == {<<m, SHA256(m)>> : m \in Hashed}

\* crypto.createHash("sha256").update(m).digest("hex")
sha256(m) ==
  IF \E d \in Digests : d[1] = m THEN (CHOOSE d \in Digests : d[1] = m)[2]
  ELSE SHA256(m)

\* mutant: the address is salted with the size of the table
addrFromPhrase_Salted(phrase) ==
  <<"P", "W", "-">> \o ToUpperCase(Slice0(sha256(phrase \o <<"|", "v", "1">>), 10))
    \o NatToStr(Cardinality(rows))

\* addrFromPhrase: "PW-" + sha256(phrase + "|v1").slice(0, 10).toUpperCase()
addrFromPhrase(phrase) ==
  <<"P", "W", "-">> \o ToUpperCase(Slice0(sha256(phrase \o <<"|", "v", "1">>), 10))

\* hashMnemonic: sha256(String(mnemonic)) in hex
hashMnemonic(mnemonic) == sha256(mnemonic)

\* deriveAddressFromHash: "MWC-" and the first 16 hex digits, in upper case
\* and padded with "0", in groups of four
deriveAddressFromHash(hashHex) ==
  LET h == PadEnd(ToUpperCase(Slice0(hashHex, 16)), 16, "0")
  IN <<"M", "W", "C", "-">> \o SubSeq(h, 1, 4) \o <<"-">> \o SubSeq(h, 5, 8)
       \o <<"-">> \o SubSeq(h, 9, 12) \o <<"-">> \o SubSeq(h, 13, 16)

(************************** requests and responses *************************)
NoId == <<>>

\* a completed request: the route, the HTTP status (0: no response was sent),
\* the error of the body ("ok": a wallet record) and the wallet the body names
Resp(op, code, err, id) == [op |-> op, code |-> code, err |-> err, id |-> id]

\* res.status(code).json({ error })
ErrorBody(err) == [error |-> err]

\* no body: nothing was sent
NoBody == <<>>

\* the handler answers: its response, the store accesses it made, the body
Reply(resp, n, b) == last' = resp /\ accesses' = n /\ body' = b

\* return res.status(code).json({ error: err }) after n store accesses
Fail(op, code, err, n) == Reply(Resp(op, code, err, NoId), n, ErrorBody(err))

\* a handler suspended at its second await: what its closure holds
Cont(op, id, amount, phrase) ==
  [op |-> op, id |-> id, amount |-> amount, phrase |-> phrase]

Suspended == BagToSet(inflight)
Suspend(c) == inflight (+) SetToBag({c})
Resume(c) == inflight (-) SetToBag({c})

(*************************** db: table wallets *****************************)
\* now() / new Date(): a logical time, the number of wallets made so far
Now == Cardinality(rows) + Cardinality(DOMAIN wallets)

\* uuidv4() / gen_random_uuid(): an id no row has
NewId == <<"uuid", Cardinality(rows) + 1>>

WalletRow(id, address, words, alias, balance) ==
  [id |-> id, address |-> address, words |-> words, alias |-> alias,
   balance |-> balance, created_at |-> Now]

RowsById(id) == {r \in rows : r.id = id}
\* SELECT ... FROM wallets WHERE words = $1
RowsByWords(phrase) == {r \in rows : r.words = phrase}

\* mutant: table wallets without the unique index on address
AddressTaken_NoIndex(address) == FALSE

\* the unique index on address that ON CONFLICT (address) names
AddressTaken(address) == \E r \in rows : r.address = address

\* SET balance = balance + $1
DbAwarded(balance, amount) == balance + amount

\* rows[0].balance < amount
DbShort(balance, amount) == balance < amount

\* SET balance = balance - $1
DbSpent(balance, amount) == balance - amount

\* UPDATE wallets SET balance = ... WHERE id = $2
UpdateBalance(id, balance) ==
  {IF r.id = id THEN [r EXCEPT !.balance = balance] ELSE r : r \in rows}

BalanceOf(id) == (CHOOSE r \in RowsById(id) : TRUE).balance

\* mutant: ON CONFLICT (address) DO NOTHING
ConflictUpdate_Nothing(address, alias) == rows

\* mutant: the conflicting row replaced by the row the INSERT proposed
ConflictUpdate_Replace(address, alias) ==
  {IF r.address = address THEN [r EXCEPT !.alias = alias, !.balance = 0] ELSE r
     : r \in rows}

\* ... ON CONFLICT (address) DO UPDATE SET alias = EXCLUDED.alias
ConflictUpdate(address, alias) ==
  {IF r.address = address THEN [r EXCEPT !.alias = alias] ELSE r : r \in rows}

DbFrame == UNCHANGED <<variant, wallets, scope, wallVars>>

\* mutant: RETURNING *
Returning_Star(r) ==
  [id |-> r.id, address |-> r.address, alias |-> r.alias, balance |-> r.balance,
   created_at |-> r.created_at, words |-> r.words]

\* RETURNING id,address,alias,balance,created_at (and the SELECT of the same)
Returning(r) ==
  [id |-> r.id, address |-> r.address, alias |-> r.alias, balance |-> r.balance,
   created_at |-> r.created_at]

\* { ...rows[0], words }
WithWords(b, words) ==
  [f \in DOMAIN b \cup {"words"} |-> IF f = "words" THEN words ELSE b[f]]

RowOf(table, id) == CHOOSE r \in table : r.id = id

\* res.json(rows[0]) after n queries, the row as the statement left it
DbOk(op, id, n) == Reply(Resp(op, 200, "ok", id), n, Returning(RowOf(rows', id)))

\* an async handler threw before its try: Express 4 leaves the rejection
\* unhandled and sends nothing; Express 5 answers from its error handler
Thrown(op) ==
  {Resp(op, 0, "unhandled_rejection", NoId), Resp(op, 500, "framework_error", NoId)}

ThrownBody(t) == IF t.code = 0 THEN NoBody ELSE ErrorBody(t.err)

\* POST /api/wallet { nickname, mnemonic }
DbUpsert(nickname, mnemonic) ==
  LET nick == Slice0(Trim(ToStr(OrElse(nickname, JStr(<<>>)))), ALIAS_MAX)
      mn == Trim(ToStr(OrElse(mnemonic, JStr(<<>>))))
      words == FilterBoolean(SplitWs(mn))
      address == addrFromPhrase(mn)
  IN /\ variant = "db"
     /\ DbFrame
     /\ UNCHANGED inflight
     /\ IF nick = <<>> \/ Len(words) < NEED_WORDS
          THEN /\ Fail("upsert", 400, "bad_payload", 0)
               /\ UNCHANGED rows
          ELSE \/ /\ Fail("upsert", 500, "wallet_upsert_failed", 1)
                  /\ UNCHANGED rows
               \/ /\ AddressTaken(address)
                  /\ rows' = ConflictUpdate(address, nick)
                  /\ DbOk("upsert", (CHOOSE r \in rows : r.address = address).id,
                          1)
               \/ /\ ~AddressTaken(address)
                  /\ rows' = rows \cup {WalletRow(NewId, address, mn, nick, 0)}
                  /\ DbOk("upsert", NewId, 1)

\* POST /api/wallet/create { alias }; bytes is what randomBytes(12) returned
DbCreate(alias, bytes) ==
  LET phrase == JoinSp(genWords(bytes))
      address == addrFromPhrase(phrase)
      a == OrElse(alias, JStr(<<>>))
  IN /\ variant = "db"
     /\ DbFrame
     /\ UNCHANGED inflight
     /\ IF a.t # "str"
          \* .slice is not a function, outside the try
          THEN /\ \E t \in Thrown("create") : Reply(t, 0, ThrownBody(t))
               /\ UNCHANGED rows
          ELSE \/ /\ Fail("create", 500, "create_failed", 1)
                  /\ UNCHANGED rows
               \/ /\ ~AddressTaken(address)
                  /\ rows' = rows \cup {WalletRow(NewId, address, phrase,
                                               Slice0(a.s, ALIAS_MAX), 0)}
                  /\ Reply(Resp("create", 200, "ok", NewId), 1,
                           WithWords(Returning(RowOf(rows', NewId)), genWords(bytes)))

\* POST /api/wallet/import { words }: up to the SELECT ... WHERE words = $1
DbImportSelect(wordsIn) ==
  LET w == OrElse(wordsIn, JStr(<<>>))
      phrase == Trim(w.s)
  IN /\ variant = "db"
     /\ DbFrame
     /\ UNCHANGED rows
     /\ IF w.t # "str"
          \* .trim is not a function, outside the try
          THEN /\ \E t \in Thrown("import") : Reply(t, 0, ThrownBody(t))
               /\ UNCHANGED inflight
        ELSE IF phrase = <<>> \/ Len(SplitWs(phrase)) # NEED_WORDS
          THEN /\ Fail("import", 400, "need_12_words", 0)
               /\ UNCHANGED inflight
          ELSE \/ /\ Fail("import", 500, "import_failed", 1)
                  /\ UNCHANGED inflight
               \/ /\ RowsByWords(phrase) # {}
                  /\ DbOk("import", (CHOOSE r \in RowsByWords(phrase) : TRUE).id,
                          1)
                  /\ UNCHANGED inflight
               \/ /\ RowsByWords(phrase) = {}
                  /\ BagCardinality(inflight) < MaxInFlight
                  /\ inflight' = Suspend(Cont("import", NoId, 0, phrase))
                  /\ UNCHANGED <<last, accesses, body>>

\* POST /api/wallet/import, resumed: the INSERT
DbImportInsert(c) ==
  LET address == addrFromPhrase(c.phrase)
  IN /\ variant = "db"
     /\ c \in Suspended
     /\ c.op = "import"
     /\ DbFrame
     /\ inflight' = Resume(c)
     /\ \/ /\ Fail("import", 500, "import_failed", 2)
           /\ UNCHANGED rows
        \/ /\ ~AddressTaken(address)
           /\ rows' = rows \cup {WalletRow(NewId, address, c.phrase, <<>>, 0)}
           /\ DbOk("import", NewId, 2)

\* POST /api/wallet/:id/award { amount }
DbAward(id, amountIn) ==
  LET amount == ParseAmount(amountIn)
  IN /\ variant = "db"
     /\ DbFrame
     /\ UNCHANGED inflight
     /\ IF BadAmount(amount)
          THEN /\ Fail("award", 400, "bad_amount", 0)
               /\ UNCHANGED rows
          ELSE \/ /\ Fail("award", 500, "award_failed", 1)
                  /\ UNCHANGED rows
               \/ /\ RowsById(id) = {}
                  /\ Fail("award", 404, "not_found", 1)
                  /\ UNCHANGED rows
               \/ /\ RowsById(id) # {}
                  /\ DbAwarded(BalanceOf(id), amount.n) <= MaxBal * Unit
                  /\ rows' = UpdateBalance(id, DbAwarded(BalanceOf(id), amount.n))
                  /\ DbOk("award", id, 1)

\* POST /api/wallet/:id/spend { amount }: up to the SELECT balance and its check
DbSpendSelect(id, amountIn) ==
  LET amount == ParseAmount(amountIn)
  IN /\ variant = "db"
     /\ DbFrame
     /\ UNCHANGED rows
     /\ IF BadAmount(amount)
          THEN /\ Fail("spend", 400, "bad_amount", 0)
               /\ UNCHANGED inflight
          ELSE \/ /\ Fail("spend", 500, "spend_failed", 1)
                  /\ UNCHANGED inflight
               \/ /\ RowsById(id) = {}
                  /\ Fail("spend", 404, "not_found", 1)
                  /\ UNCHANGED inflight
               \/ /\ RowsById(id) # {}
                  /\ DbShort(BalanceOf(id), amount.n)
                  /\ Fail("spend", 400, "insufficient_funds", 1)
                  /\ UNCHANGED inflight
               \/ /\ RowsById(id) # {}
                  /\ ~DbShort(BalanceOf(id), amount.n)
                  /\ BagCardinality(inflight) < MaxInFlight
                  /\ inflight' = Suspend(Cont("spend", id, amount.n, <<>>))
                  /\ UNCHANGED <<last, accesses, body>>

\* POST /api/wallet/:id/spend, resumed: the UPDATE ... balance - $1
DbSpendUpdate(c) ==
  /\ variant = "db"
  /\ c \in Suspended
  /\ c.op = "spend"
  /\ DbFrame
  /\ inflight' = Resume(c)
  /\ \/ /\ Fail("spend", 500, "spend_failed", 2)
        /\ UNCHANGED rows
     \/ /\ rows' = UpdateBalance(c.id, DbSpent(BalanceOf(c.id), c.amount))
        /\ DbOk("spend", c.id, 2)

\* GET /api/wallet/:id
DbGet(id) ==
  /\ variant = "db"
  /\ DbFrame
  /\ UNCHANGED <<rows, inflight>>
  /\ \/ Fail("get", 500, "fetch_failed", 1)
     \/ IF RowsById(id) = {} THEN Fail("get", 404, "not_found", 1)
        ELSE DbOk("get", id, 1)

(*************************** mem: the Map wallets **************************)
MemFrame == UNCHANGED <<variant, rows, inflight, scope, wallVars>>

MemWallet(key, address, nickname, balance) ==
  [id |-> key, address |-> address, nickname |-> nickname,
   balance |-> balance, createdAt |-> Now]

\* publicWallet(w) (updatedAt is not modelled)
publicWallet(w) ==
  [address |-> w.address, nickname |-> w.nickname,
   balance |-> ToFixedNumber(w.balance), createdAt |-> w.createdAt]

\* res.json(publicWallet(w)) after n accesses to the Map
MemOk(op, key, n) == Reply(Resp(op, 200, "ok", key), n, publicWallet(wallets'[key]))

\* mutant: the loop takes a wallet whatever its address
KeysByAddress_Any(address) == DOMAIN wallets

\* for (const w of wallets.values()) if (w.address === address) ...
KeysByAddress(address) == {k \in DOMAIN wallets : wallets[k].address = address}

\* wallets.set(key, w)
MapSet(key, w) == [k \in DOMAIN wallets \cup {key} |-> IF k = key THEN w ELSE wallets[k]]

\* Number((target.balance + amount).toFixed(DECIMALS))
MemEarned(balance, amount) == ToFixedSum(balance, amount)

\* target.balance < amount
MemShort(balance, amount) == balance < amount

\* Number((target.balance - amount).toFixed(DECIMALS))
MemSpent(balance, amount) == ToFixedSum(balance, -amount)

\* target.balance = ...
SetBalance(key, balance) == [wallets EXCEPT ![key].balance = balance]

\* POST /api/wallet { nickname, mnemonic } and getOrCreateWallet
MemUpsert(nickname, mnemonic) ==
  LET n == OrElse(nickname, JStr(Guest))
      m == OrElse(mnemonic, JStr(<<>>))
      nick == Slice0(n.s, NICK_MAX)
      mnRaw == Trim(m.s)
      key == hashMnemonic(mnRaw)
  IN /\ variant = "mem"
     /\ MemFrame
     /\ IF n.t # "str" \/ m.t # "str"
          \* .slice / .trim is not a function: caught by the handler's try
          THEN /\ Fail("upsert", 500, "Wallet error.", 0)
               /\ UNCHANGED wallets
        ELSE IF mnRaw = <<>>
          THEN /\ Fail("upsert", 400, "Missing mnemonic.", 0)
               /\ UNCHANGED wallets
        ELSE IF key \notin DOMAIN wallets
          THEN /\ wallets' = MapSet(key, MemWallet(key, deriveAddressFromHash(key),
                                                  nick, START_BALANCE))
               /\ MemOk("upsert", key, 1)
        ELSE /\ wallets' = IF nick # <<>> /\ nick # wallets[key].nickname
                             THEN [wallets EXCEPT ![key].nickname = nick]
                             ELSE wallets
             /\ MemOk("upsert", key, 1)

\* typeof amount === "number"
IsNumber(v) == v.t \in {"num", "inf"}

\* Number.isFinite(amount) of a number
IsFinite(v) == v.t = "num"

\* the payload check of earn and spend:
\* !address || typeof amount !== "number" || !Number.isFinite(amount)
MemBadPayload(address, amountIn) ==
  address = NoId \/ ~IsNumber(amountIn) \/ ~IsFinite(amountIn)

\* POST /api/wallet/earn { address, amount }
MemEarn(address, amountIn) ==
  /\ variant = "mem"
  /\ MemFrame
  /\ IF MemBadPayload(address, amountIn)
       THEN /\ Fail("award", 400, "Invalid payload.", 0)
            /\ UNCHANGED wallets
     ELSE IF KeysByAddress(address) = {}
       THEN /\ Fail("award", 404, "Wallet not found.", 1)
            /\ UNCHANGED wallets
     ELSE LET key == CHOOSE k \in KeysByAddress(address) : TRUE
          IN /\ Abs(MemEarned(wallets[key].balance, amountIn.n)) <= MaxBal * Unit
             /\ wallets' = SetBalance(key, MemEarned(wallets[key].balance, amountIn.n))
             /\ MemOk("award", key, 1)

\* POST /api/wallet/spend { address, amount }
MemSpend(address, amountIn) ==
  /\ variant = "mem"
  /\ MemFrame
  /\ IF MemBadPayload(address, amountIn)
       THEN /\ Fail("spend", 400, "Invalid payload.", 0)
            /\ UNCHANGED wallets
     ELSE IF KeysByAddress(address) = {}
       THEN /\ Fail("spend", 404, "Wallet not found.", 1)
            /\ UNCHANGED wallets
     ELSE LET key == CHOOSE k \in KeysByAddress(address) : TRUE
          IN IF MemShort(wallets[key].balance, amountIn.n)
               THEN /\ Fail("spend", 400, "Insufficient balance.", 1)
                    /\ UNCHANGED wallets
               ELSE /\ Abs(MemSpent(wallets[key].balance, amountIn.n)) <= MaxBal * Unit
                    /\ wallets' = SetBalance(key, MemSpent(wallets[key].balance, amountIn.n))
                    /\ MemOk("spend", key, 1)

\* GET /api/wallet/:address
MemGet(address) ==
  /\ variant = "mem"
  /\ MemFrame
  /\ UNCHANGED wallets
  /\ IF address = NoId THEN Fail("get", 400, "Missing address.", 0)
     ELSE IF KeysByAddress(address) = {}
       THEN Fail("get", 404, "Wallet not found.", 1)
     ELSE MemOk("get", CHOOSE k \in KeysByAddress(address) : TRUE, 1)

(********************** the wallets that requests name *********************)
UnknownId == <<"uuid", 0>>
DbIds == {r.id : r \in rows} \cup {UnknownId}

UnknownAddress == deriveAddressFromHash(hashMnemonic(<<"?">>))
MemAddresses == {wallets[k].address : k \in DOMAIN wallets} \cup {UnknownAddress, NoId}

(******************************* the wall **********************************)
Someone == <<"s", "o", "m", "e", "o", "n", "e">>
JustNow == <<"j", "u", "s", "t", " ", "n", "o", "w">>
Blank == <<" ">>
HiPad == <<" ", "h", "i", "\n">>
LongText == [i \in 1..(TEXT_MAX + 1) |-> "x"]
LongNick == [i \in 1..(WALL_NICK_MAX + 1) |-> "n"]

WallFrame == UNCHANGED <<variant, scope, wallets, rows>>

WallSize == IF variant = "mem" THEN Len(wallPosts) ELSE Len(whispers)

\* new Date() / now(): the wall clock.  It goes on, and it can be set back:
\* a post can read a value later than the last reading, the same, or an
\* earlier one (followed for the posts after the first, up to MaxTied)
Readings ==
  IF WallSize = 0 \/ WallSize >= MaxTied THEN {clock + 1}
  ELSE (clock - MaxBack) .. (clock + 1)

\* a wall handler of the Postgres draft suspended at its second await: the
\* route and the body of the request
WallCont(op, text, nick) == Cont(op, NoId, 0, <<text, nick>>)

\* how many handlers can be suspended: on a wall past its first posts the
\* requests are followed one at a time
WallInFlight == IF WallSize < MaxTied THEN MaxInFlight ELSE 1

\* the posts the wall holds, in insertion order, and when each was made
Stored == IF variant = "mem" THEN wallPosts ELSE whispers
StoredAt(i) == IF variant = "mem" THEN wallPosts[i].createdAt ELSE whispers[i].created_at

\* a wall is followed past MaxTied posts when it was made, and goes on, by
\* posts of the plain body ("hi" from someone) at readings that go up
Grows(text, nick, now) ==
  \/ WallSize < MaxTied
  \/ /\ text = Trim(HiPad) /\ nick = Someone /\ now > clock
     /\ \A i \in 1..WallSize :
          /\ Stored[i].text = Trim(HiPad)
          /\ Stored[i].nick = Someone
          /\ i < WallSize => StoredAt(i) < StoredAt(i + 1)

\* where x goes in a sequence of keys sorted newest first: behind every key
\* that is not older (a stable sort keeps equal keys in their order)
Behind(keys, sorted, x) ==
  Cardinality({i \in 1..Len(sorted) : keys[sorted[i]] >= keys[x]})

RECURSIVE SortFrom(_, _, _)
SortFrom(keys, x, sorted) ==
  IF x > Len(keys) THEN sorted
  ELSE LET k == Behind(keys, sorted, x)
       IN SortFrom(keys, x + 1,
                   SubSeq(sorted, 1, k) \o <<x>> \o SubSeq(sorted, k + 1, Len(sorted)))

\* the indices of keys, by key descending, equal keys in index order
NewestFirst(keys) == SortFrom(keys, 1, <<>>)

Reverse(q) == [i \in 1..Len(q) |-> q[Len(q) + 1 - i]]

\* mutant: the new post goes to the front of the list
push_Front(list, item) == <<item>> \o list

\* wallPosts.push(item); INSERT INTO whispers
push(list, item) == Append(list, item)

\* mutant: the notification is sent twice
Emit_Twice(item) ==
  emitted \o << [event |-> "wall:new", item |-> item],
                [event |-> "wall:new", item |-> item] >>

\* io.emit("wall:new", item)
Emit(item) == Append(emitted, [event |-> "wall:new", item |-> item])

\* io.on("connection", ...) and socket.on("disconnect", ...)
Connect ==
  /\ variant = "mem"
  /\ sockets < MaxSockets
  /\ sockets' = sockets + 1
  /\ WallFrame
  /\ UNCHANGED <<wallPosts, nextWallId, whispers, whispersTable, emitted, clock,
                 inflight, last, accesses, body>>

Disconnect ==
  /\ variant = "mem"
  /\ sockets > 0
  /\ sockets' = sockets - 1
  /\ WallFrame
  /\ UNCHANGED <<wallPosts, nextWallId, whispers, whispersTable, emitted, clock,
                 inflight, last, accesses, body>>

\* mem: GET /api/wall
MemWallList ==
  /\ variant = "mem"
  /\ WallFrame
  /\ UNCHANGED <<wallVars, inflight>>
  /\ \E order \in {NewestFirst([i \in 1..Len(wallPosts) |-> wallPosts[i].createdAt])} :
       Reply(Resp("list", 200, "ok", NoId), 1,
             [i \in 1..Len(order) |-> wallPosts[order[i]]])

\* mem: POST /api/wall { text, nick }; now is what new Date() read
MemWallPost(text, nick, now) ==
  LET tx == OrElse(text, JStr(<<>>))
      nk == OrElse(nick, JStr(Someone))
      cleanText == Trim(tx.s)
      cleanNick == IF Trim(nk.s) = <<>> THEN Someone ELSE Trim(nk.s)
      item == [id |-> NatToStr(nextWallId), text |-> cleanText, nick |-> cleanNick,
               when |-> JustNow, createdAt |-> now]
  IN /\ variant = "mem"
     /\ WallFrame
     /\ UNCHANGED <<whispers, whispersTable, sockets, inflight>>
     /\ IF tx.t # "str" \/ nk.t # "str"
          \* .trim is not a function: caught by the handler's try
          THEN /\ Fail("post", 500, "Failed to post whisper.", 0)
               /\ UNCHANGED <<wallPosts, nextWallId, emitted, clock>>
        ELSE IF cleanText = <<>>
          THEN /\ Fail("post", 400, "Text is required.", 0)
               /\ UNCHANGED <<wallPosts, nextWallId, emitted, clock>>
        ELSE /\ Len(wallPosts) < MaxPosts
             /\ Grows(cleanText, cleanNick, now)
             /\ wallPosts' = push(wallPosts, item)
             /\ nextWallId' = nextWallId + 1
             /\ emitted' = Emit(item)
             /\ clock' = now
             /\ Reply(Resp("post", 200, "ok", item.id), 1, item)

\* LIMIT 50
FirstRows(order) == SubSeq(order, 1, Min(LIMIT, Len(order)))

\* db: GET /api/wall, up to await pool.query(CREATE_WHISPERS_TABLE)
DbWallListCreate ==
  /\ variant = "db"
  /\ WallFrame
  /\ UNCHANGED <<wallPosts, nextWallId, whispers, emitted, sockets, clock>>
  /\ \/ /\ Fail("list", 500, "wall_list_failed", 1)
        /\ UNCHANGED <<whispersTable, inflight>>
     \/ /\ BagCardinality(inflight) < WallInFlight
        /\ whispersTable' = TRUE
        /\ inflight' = Suspend(WallCont("list", JNone, JNone))
        /\ UNCHANGED <<last, accesses, body>>

\* db: GET /api/wall, resumed: the SELECT.  ORDER BY created_at DESC leaves
\* the order of rows with the same created_at to the scan, here either
\* direction of the heap
DbWallListSelect(c) ==
  /\ variant = "db"
  /\ c \in Suspended
  /\ c.op = "list"
  /\ WallFrame
  /\ UNCHANGED wallVars
  /\ inflight' = Resume(c)
  /\ \/ Fail("list", 500, "wall_list_failed", 2)
     \/ \E heap \in {whispers, Reverse(whispers)} :
          \E found \in {FirstRows(NewestFirst([i \in 1..Len(heap) |->
                                                   heap[i].created_at]))} :
            Reply(Resp("list", 200, "ok", NoId), 2,
                  [i \in 1..Len(found) |->
                     [id |-> heap[found[i]].id,
                      text |-> heap[found[i]].text,
                      nick |-> IF heap[found[i]].nick = <<>> THEN Someone
                               ELSE heap[found[i]].nick,
                      when |-> JustNow]])

\* db: POST /api/wall { text, nick }, up to await pool.query(CREATE_WHISPERS_TABLE)
DbWallPostCreate(text, nick) ==
  /\ variant = "db"
  /\ WallFrame
  /\ UNCHANGED <<wallPosts, nextWallId, whispers, emitted, sockets, clock>>
  /\ \/ /\ Fail("post", 500, "wall_create_failed", 1)
        /\ UNCHANGED <<whispersTable, inflight>>
     \/ /\ BagCardinality(inflight) < WallInFlight
        /\ whispersTable' = TRUE
        /\ inflight' = Suspend(WallCont("post", text, nick))
        /\ UNCHANGED <<last, accesses, body>>

\* db: POST /api/wall, resumed: the validation and the INSERT; now is what
\* now() read
DbWallPostInsert(c, now) ==
  LET text == c.phrase[1]
      nick == c.phrase[2]
      rawText == Trim(ToStr(OrElse(text, JStr(<<>>))))
      rawNick == Trim(ToStr(OrElse(nick, JStr(<<>>))))
      txt == Slice0(rawText, TEXT_MAX)
      nk == Slice0(IF rawNick = <<>> THEN Someone ELSE rawNick, WALL_NICK_MAX)
      id == <<"uuid", Len(whispers) + 1>>
      row == [id |-> id, text |-> txt, nick |-> nk, created_at |-> now, likes |-> 0]
  IN /\ variant = "db"
     /\ c \in Suspended
     /\ c.op = "post"
     /\ WallFrame
     /\ UNCHANGED <<wallPosts, nextWallId, whispersTable, emitted, sockets>>
     /\ inflight' = Resume(c)
     /\ IF txt = <<>>
          THEN /\ Fail("post", 400, "empty_text", 1)
               /\ UNCHANGED <<whispers, clock>>
          ELSE \/ /\ Fail("post", 500, "wall_create_failed", 2)
                  /\ UNCHANGED <<whispers, clock>>
               \/ /\ Len(whispers) < MaxPosts
                  /\ Grows(txt, nk, now)
                  /\ whispers' = push(whispers, row)
                  /\ clock' = now
                  /\ Reply(Resp("post", 200, "ok", id), 2,
                           [id |-> id, text |-> txt, nick |-> nk,
                            when |-> JustNow, likes |-> row.likes])

\* the bodies of post requests: any of them on an empty wall, the plain ones
\* after
FreeTexts == {JStr(HiPad), JStr(Blank), JNone, JNum(0), JNum(7 * Unit), JStr(LongText)}
FreeNicks == {JNone, JStr(Blank), JStr(LongNick)}
WallTexts ==
  IF WallSize + BagCardinality(inflight) < MaxFree THEN FreeTexts
  ELSE {JStr(HiPad), JStr(Blank)}
WallNicks ==
  IF WallSize + BagCardinality(inflight) < MaxFree THEN FreeNicks ELSE {JNone}

(***************************** the state machine ***************************)
\* const wallPosts = []; let nextWallId = 1; no table whispers yet
WallEmpty ==
  /\ wallPosts = <<>>
  /\ nextWallId = 1
  /\ whispers = <<>>
  /\ whispersTable = FALSE
  /\ emitted = <<>>
  /\ sockets = 0
  /\ clock = 0

Init ==
  /\ variant \in {"mem", "db"}
  /\ wallets = <<>>
  /\ rows = {}
  /\ inflight = EmptyBag
  /\ last = Resp("none", 0, "none", NoId)
  /\ accesses = 0
  /\ body = NoBody
  /\ scope \in (IF variant = "db" THEN {"wallet", "clash"} ELSE {"wallet"})
  /\ WallEmpty

Next ==
  \/ \E n \in DbNicknames, m \in DbMnemonics : DbUpsert(n, m)
  \/ \E a \in DbAliases, b \in GenBytes : DbCreate(a, b)
  \/ \E w \in DbImportWords : DbImportSelect(w)
  \/ \E c \in Suspended : DbImportInsert(c)
  \/ \E id \in DbIds : DbGet(id)
  \/ \E id \in DbIds, a \in DbAmounts : DbAward(id, a)
  \/ \E id \in DbIds, a \in DbAmounts : DbSpendSelect(id, a)
  \/ \E c \in Suspended : DbSpendUpdate(c)
  \/ \E n \in MemNicknames, m \in MemMnemonics : MemUpsert(n, m)
  \/ \E ad \in MemAddresses, a \in MemAmounts : MemEarn(ad, a)
  \/ \E ad \in MemAddresses, a \in MemAmounts : MemSpend(ad, a)
  \/ \E ad \in MemAddresses : MemGet(ad)

Spec == Init /\ [][Next]_vars

\* the wall alone
WallInit ==
  /\ variant \in {"mem", "db"}
  /\ wallets = <<>>
  /\ rows = {}
  /\ inflight = EmptyBag
  /\ last = Resp("none", 0, "none", NoId)
  /\ accesses = 0
  /\ body = NoBody
  /\ scope = "wall"
  /\ WallEmpty

WallNext ==
  \/ \E t \in WallTexts, n \in WallNicks, now \in Readings : MemWallPost(t, n, now)
  \/ \E t \in WallTexts, n \in WallNicks : DbWallPostCreate(t, n)
  \/ \E c \in Suspended, now \in Readings : DbWallPostInsert(c, now)
  \/ MemWallList
  \/ DbWallListCreate
  \/ \E c \in Suspended : DbWallListSelect(c)
  \/ Connect
  \/ Disconnect

WallSpec == WallInit /\ [][WallNext]_vars

\* the two features side by side: they share no state, so a behaviour of the
\* service is followed in one feature at a time
ServiceInit == Init \/ WallInit
ServiceNext ==
  \/ scope # "wall" /\ Next
  \/ scope = "wall" /\ WallNext
Service == ServiceInit /\ [][ServiceNext]_vars

\* the life of a generated wallet in the Postgres draft: it is created under
\* an alias that no other request uses, then imported, upserted, awarded to
\* and read
Gen == <<"g", "e", "n">>
GenNicknames == {JStr(Amy), JStr(BobPad)}

GenInit == Init /\ variant = "db" /\ scope = "wallet"

GenNext ==
  \/ \E b \in GenBytes : DbCreate(JStr(Gen), b)
  \/ \E w \in GenPhrases : DbImportSelect(JStr(w))
  \/ \E c \in Suspended : DbImportInsert(c)
  \/ \E n \in GenNicknames, w \in GenPhrases : DbUpsert(n, JStr(w))
  \/ \E id \in DbIds : DbAward(id, JNum(Unit))
  \/ \E id \in DbIds : DbGet(id)

GenSpec == GenInit /\ [][GenNext]_vars

(******************************* claims ************************************)
AllBalances ==
  {r.balance : r \in rows} \cup {wallets[k].balance : k \in DOMAIN wallets}

\* the amount a request carries is a number greater than zero
Positive(a) == a.t = "num" /\ a.n > 0

\* C1: in every reachable state every wallet's balance is >= 0: a mutation
\* that would make a balance negative is rejected, not clamped.
C1_BalanceNeverNegative == \A b \in AllBalances : b >= 0

\* C2: of two concurrent spends of the full balance exactly one succeeds and
\* the balance never goes negative, the check and the deduction of a spend
\* being one atomic step: a deduction that succeeds finds the balance still
\* covering its amount, and leaves it >= 0.
C2_SpendCheckAndDeductAtomic ==
  [][\A c \in Suspended :
       (c.op = "spend" /\ DbSpendUpdate(c) /\ last'.err = "ok")
         => /\ BalanceOf(c.id) >= c.amount
            /\ \A r \in rows' : r.id = c.id => r.balance >= 0]_vars

\* C3: a spend of a (positive) amount greater than the wallet's current
\* balance fails with InsufficientFunds and changes nothing (a store failure
\* aside, which also changes nothing).
C3_SpendBeyondBalanceFails ==
  [][/\ \A id \in DbIds, a \in DbAmounts :
          (/\ Positive(a)
           /\ RowsById(id) # {}
           /\ a.n > BalanceOf(id)
           /\ DbSpendSelect(id, a))
            => /\ last' \in {Resp("spend", 400, "insufficient_funds", NoId),
                             Resp("spend", 500, "spend_failed", NoId)}
               /\ UNCHANGED <<rows, inflight>>
     /\ \A ad \in MemAddresses, a \in MemAmounts :
          (/\ Positive(a)
           /\ KeysByAddress(ad) # {}
           /\ \A k \in KeysByAddress(ad) : a.n > wallets[k].balance
           /\ MemSpend(ad, a))
            => /\ last'.err = "Insufficient balance."
               /\ UNCHANGED wallets]_vars

\* C4: award (earn) and spend accept only a positive amount: with an amount
\* that is zero, negative or not a number the request on an existing wallet
\* fails with status 400 and no balance changes (a failure of the store, which
\* changes nothing either, is not counted against the request).
C4_OnlyPositiveAmounts ==
  [][/\ \A ad \in MemAddresses, a \in MemAmounts :
          (/\ ~Positive(a)
           /\ KeysByAddress(ad) # {}
           /\ (MemEarn(ad, a) \/ MemSpend(ad, a)))
            => /\ last'.code = 400
               /\ UNCHANGED wallets
     /\ \A id \in DbIds, a \in DbAmounts :
          (/\ ~Positive(a)
           /\ RowsById(id) # {}
           /\ (DbAward(id, a) \/ DbSpendSelect(id, a)))
            => /\ last'.err \in {"bad_amount", "award_failed", "spend_failed"}
               /\ UNCHANGED <<rows, inflight>>]_vars

\* C5: at most one wallet record exists per passphrase, whatever upsert,
\* generate and import requests ran: no two records share their words, their
\* address or their id, every address is the one derived from the record's
\* passphrase, and a successful upsert, generate or import answers with a
\* record of the store.
C5_OneWalletPerPassphrase ==
  /\ \A r1, r2 \in rows :
       (r1.words = r2.words \/ r1.address = r2.address \/ r1.id = r2.id) => r1 = r2
  /\ \A r \in rows : r.address = addrFromPhrase(r.words)
  /\ \A k \in DOMAIN wallets :
       /\ wallets[k].id = k
       /\ wallets[k].address = deriveAddressFromHash(k)
       /\ KeysByAddress(wallets[k].address) = {k}
  /\ (last.op \in {"upsert", "create", "import"} /\ last.err = "ok")
       => IF variant = "db" THEN Cardinality(RowsById(last.id)) = 1
          ELSE last.id \in DOMAIN wallets

\* the wallet made by an upsert of "a b ... l", awarded since, is what a later
\* import of the same passphrase answers with
C5_Resubmitted ==
  \E r \in rows :
    /\ r.words = P12
    /\ r.alias # <<>>
    /\ r.balance > 0
    /\ last = Resp("import", 200, "ok", r.id)

\* the nickname an upsert stores: trimmed and cut (db), defaulted and cut (mem)
DbNick(nickname) == Slice0(Trim(ToStr(OrElse(nickname, JStr(<<>>)))), ALIAS_MAX)
MemNick(nickname) == Slice0(OrElse(nickname, JStr(Guest)).s, NICK_MAX)
DbPhrase(mnemonic) == Trim(ToStr(OrElse(mnemonic, JStr(<<>>))))

\* C6: every successful upsert answers with the one wallet of its passphrase
\* (so two upserts of one passphrase answer with the same id and address)
\* and leaves that wallet's nickname the nickname of this call.
C6_UpsertTakesLatestNickname ==
  [][/\ \A n \in DbNicknames, m \in DbMnemonics :
          (variant = "db" /\ last'.op = "upsert" /\ last'.err = "ok" /\ DbUpsert(n, m))
            => \E r \in rows' :
                 /\ r.address = addrFromPhrase(DbPhrase(m))
                 /\ r.alias = DbNick(n)
                 /\ last'.id = r.id
                 /\ \A old \in rows : old.address = r.address => old.id = r.id
     /\ \A n \in MemNicknames, m \in MemMnemonics :
          (variant = "mem" /\ last'.op = "upsert" /\ last'.err = "ok" /\ MemUpsert(n, m))
            => LET key == hashMnemonic(Trim(m.s))
               IN /\ key \in DOMAIN wallets'
                  /\ last'.id = key
                  /\ wallets'[key].nickname = MemNick(n)
                  /\ wallets'[key].address = deriveAddressFromHash(key)
                  /\ key \in DOMAIN wallets
                       => wallets'[key].address = wallets[key].address]_vars

\* an upsert has just renamed to "bob" a wallet that was awarded before it
C6_Renamed ==
  \E r \in rows :
    /\ r.alias = Trim(BobPad)
    /\ r.balance > 0
    /\ last = Resp("upsert", 200, "ok", r.id)

\* C7: an upsert that finds the wallet of its passphrase changes the nickname
\* only: every wallet keeps its id, address, passphrase, balance and creation
\* time, and no wallet appears or disappears.  (Every step keeps all that, or
\* it is not an upsert that found the wallet of its passphrase.)
C7_UpsertChangesNicknameOnly ==
  [][/\ \/ /\ Cardinality(rows') = Cardinality(rows)
           /\ \A old \in rows : [old EXCEPT !.alias = <<>>]
                \in {[r EXCEPT !.alias = <<>>] : r \in rows'}
        \/ ~\E n \in DbNicknames, m \in DbMnemonics :
              /\ DbUpsert(n, m)
              /\ AddressTaken(addrFromPhrase(DbPhrase(m)))
     /\ \/ /\ DOMAIN wallets' = DOMAIN wallets
           /\ \A k \in DOMAIN wallets :
                [wallets'[k] EXCEPT !.nickname = <<>>]
                  = [wallets[k] EXCEPT !.nickname = <<>>]
        \/ ~\E n \in MemNicknames, m \in MemMnemonics :
              /\ m.t = "str"
              /\ MemUpsert(n, m)
              /\ hashMnemonic(Trim(m.s)) \in DOMAIN wallets]_vars

\* mem: an upsert has just answered for a wallet whose starting balance was
\* spent down to 0 before it
C7_BalanceKept ==
  \E k \in DOMAIN wallets :
    /\ wallets[k].balance = 0
    /\ wallets[k].nickname = BobPad
    /\ last = Resp("upsert", 200, "ok", k)

\* what every non-stuttering step of DbImportSelect shows: an import has been
\* answered, or one more import handler is suspended
ImportSelectStep ==
  /\ variant = "db"
  /\ \/ last'.op = "import" /\ inflight' = inflight
     \/ /\ last' = last
        /\ BagCardinality(inflight') > BagCardinality(inflight)
        /\ \E c \in BagToSet(inflight') : c.op = "import"

\* what import makes of its field words, and whether it is 12 words
ImportPhrase(w) == Trim(OrElse(w, JStr(<<>>)).s)
TwelveWords(phrase) == phrase # <<>> /\ Len(SplitWs(phrase)) = NEED_WORDS

\* C8: import of a string that is not 12 words fails with need_12_words and
\* changes nothing; import of 12 words answers with the wallet of exactly that
\* passphrase when there is one, leaving every record as it was, and otherwise
\* makes one with balance 0 and empty nickname, leaving the others as they were
\* (a store failure aside, which changes nothing): while no wallet has the
\* 12 words, the import that looked for them can make it.
C8_ImportByWords ==
  [][/\ \A w \in DbImportWords :
          (ImportSelectStep /\ w.t = "str" /\ DbImportSelect(w))
            => LET phrase == ImportPhrase(w)
               IN IF ~TwelveWords(phrase)
                    THEN /\ last' = Resp("import", 400, "need_12_words", NoId)
                         /\ UNCHANGED <<rows, inflight>>
                  ELSE IF \E r \in rows : r.words = phrase
                    THEN /\ \/ last' = Resp("import", 500, "import_failed", NoId)
                            \/ \E r \in rows : /\ r.words = phrase
                                               /\ last' = Resp("import", 200, "ok", r.id)
                         /\ UNCHANGED <<rows, inflight>>
                  ELSE UNCHANGED rows
     /\ \A c \in Suspended :
          (c.op = "import" /\ DbImportInsert(c))
            => \/ /\ last' = Resp("import", 500, "import_failed", NoId)
                  /\ UNCHANGED rows
               \/ \E r \in rows' :
                    /\ r \notin rows
                    /\ rows' = rows \cup {r}
                    /\ r.words = c.phrase
                    /\ r.balance = 0
                    /\ r.alias = <<>>
                    /\ \A old \in rows : old.words # r.words /\ old.id # r.id
                    /\ last' = Resp("import", 200, "ok", r.id)
     /\ \A c \in Suspended :
          (c.op = "import" /\ ~\E r \in rows : r.words = c.phrase)
            => ENABLED (DbImportInsert(c) /\ last'.code = 200)]_vars

\* the amounts of the round trip: those of the requests, and 0.0005, half a
\* step of the rounding of src/server.js
RoundTripAmounts == MemAmounts \cup {JNum(Unit \div 2000)}

\* C9: for every wallet the ledger can hold and every valid (positive) amount
\* a, an award of a followed by a spend of a leaves the balance what it was
\* before the award; the two steps are what earn/award and spend compute.
C9_AwardThenSpendRoundTrip ==
  /\ \A k \in DOMAIN wallets, a \in RoundTripAmounts :
       Positive(a)
         => LET b == wallets[k].balance
                awarded == MemEarned(b, a.n)
                spent == IF MemShort(awarded, a.n) THEN awarded
                         ELSE MemSpent(awarded, a.n)
            IN spent = b
  /\ \A r \in rows, a \in DbAmounts :
       (Positive(a) /\ ~BadAmount(ParseAmount(a)))
         => LET amount == ParseAmount(a).n
                awarded == DbAwarded(r.balance, amount)
                spent == IF DbShort(awarded, amount) THEN awarded
                         ELSE DbSpent(awarded, amount)
            IN spent = r.balance

\* C10: every request that has ended, whatever its payload and whatever the
\* store did, ended with a response to its caller.
C10_EveryRequestAnswered == last.op # "none" => last.code # 0

(******************************* the wall claims ***************************)
\* the errors that validation of a request's payload answers with
ValidationErrors ==
  {"bad_payload", "bad_amount", "need_12_words", "empty_text",
   "Missing mnemonic.", "Invalid payload.", "Missing address.", "Text is required."}

\* C11: a request rejected by validation (InvalidPayload, InvalidAmount,
\* EmptyText) is rejected before any access to the store: the handler has
\* made no store read or write when it answers with a validation error.
C11_ValidationBeforeStore ==
  last.err \in ValidationErrors => accesses = 0

\* C12: list returns the most recent posts first and at most 50 of them:
\* with n posts stored it answers exactly min(n, 50) posts, the most recently
\* created ones, in the insertion order reversed.
C12_ListNewestFirstAtMost50 ==
  last = Resp("list", 200, "ok", NoId)
    => /\ Len(body) = Min(Len(Stored), LIMIT)
       /\ \A i \in 1..Len(body) :
            i <= Len(Stored) /\ body[i].id = Stored[Len(Stored) + 1 - i].id

\* the step in which a post request with the body { text, nick } is
\* answered, in either draft
PostStep(text, nick) ==
  \/ \E now \in Readings :
       \/ MemWallPost(text, nick, now)
       \/ DbWallPostInsert(WallCont("post", text, nick), now)
  \/ DbWallPostCreate(text, nick) /\ inflight' = inflight

\* the text or nick is a string of white space only, or is missing or
\* another falsy value: (v || "").trim() is empty
BlankField(v) ==
  \E x \in {OrElse(v, JStr(<<>>))} : x.t = "str" /\ Trim(x.s) = <<>>

EmptyText == {"empty_text", "Text is required."}

\* C13: post fails with EmptyText whenever the text is empty after trimming,
\* and then adds no post to the wall; post with a non-empty text and a blank
\* nick succeeds (a failing store aside) and stores the nick "someone".
C13_EmptyTextAndDefaultNick ==
  [][\A text \in FreeTexts, nick \in FreeNicks :
       (last'.op = "post" /\ PostStep(text, nick))
         => /\ BlankField(text)
                 => last'.code = 400 /\ last'.err \in EmptyText /\ Stored' = Stored
            /\ (text.t = "str" /\ ~BlankField(text) /\ BlankField(nick))
                 => \/ last'.code = 500 /\ Stored' = Stored
                    \/ /\ last'.code = 200
                       /\ Len(Stored') = Len(Stored) + 1
                       /\ Stored'[Len(Stored')].nick = Someone
                       /\ body'.nick = Someone]_vars

\* C14: every post stored on the wall has a text that is non-empty and at
\* most 500 characters long and a nick that is non-empty and at most 40
\* characters long.
C14_StoredPostsWithinCaps ==
  \A i \in 1..Len(Stored) :
    /\ Stored[i].text # <<>>
    /\ Len(Stored[i].text) <= TEXT_MAX
    /\ Stored[i].nick # <<>>
    /\ Len(Stored[i].nick) <= WALL_NICK_MAX

\* C15: with the live-broadcast channel of the in-memory draft, each
\* successful post emits exactly one "wall:new" notification carrying the
\* record just created, which the store then holds as its last post; a post
\* that fails (EmptyText) emits nothing; and the number of connected
\* subscribers, zero included, has no part in the outcome.
C15_OneNotificationPerPost ==
  [][\A text \in FreeTexts, nick \in FreeNicks :
       (variant = "mem" /\ last'.op = "post" /\ PostStep(text, nick))
         => IF last'.code = 200
              THEN /\ wallPosts' = Append(wallPosts, body')
                   /\ emitted' = Append(emitted, [event |-> "wall:new", item |-> body'])
                   /\ sockets' = sockets
              ELSE emitted' = emitted /\ wallPosts' = wallPosts]_vars

\* a post went through and was announced while nobody was connected
C15_Notified ==
  /\ variant = "mem"
  /\ sockets = 0
  /\ last = Resp("post", 200, "ok", <<"1">>)
  /\ Len(wallPosts) = 1
  /\ emitted = <<[event |-> "wall:new", item |-> wallPosts[1]]>>

(************************ claims on the whole service **********************)
\* C16: the wall is append-only and wallets are never deleted: every step
\* keeps the posts already stored as they are and where they are, and keeps
\* every wallet, under the same id and the same address.
C16_AppendOnlyNeverDeleted ==
  [][/\ Len(Stored') >= Len(Stored)
     /\ SubSeq(Stored', 1, Len(Stored)) = Stored
     /\ \A k \in DOMAIN wallets :
          /\ k \in DOMAIN wallets'
          /\ wallets'[k].id = wallets[k].id
          /\ wallets'[k].address = wallets[k].address
     /\ \A r \in rows :
          Cardinality({q \in rows' : q.id = r.id /\ q.address = r.address}) = 1]_vars

\* the wall is full and still begins with its first post, read back by a list
C16_KeptAll ==
  /\ variant = "db"
  /\ Len(whispers) = MaxPosts
  /\ whispers[1].id = <<"uuid", 1>>
  /\ whispers[1].text = <<"h", "i">>
  /\ whispers[1].created_at = 1
  /\ last = Resp("list", 200, "ok", NoId)
  /\ body[LIMIT].text = <<"h", "i">>

\* the response body b has the passphrase of a stored wallet in it: as the
\* field words or mnemonic, or as the value of one of its string fields
Echoes(b) ==
  /\ b # NoBody
  /\ \/ DOMAIN b \cap {"words", "mnemonic"} # {}
     \/ \E f \in DOMAIN b \cap {"alias", "nickname", "address"} :
          \E r \in rows : b[f] = r.words

\* C17: no response of an operation other than generate (/wallet/create)
\* contains the passphrase of a wallet: the generated words are in the
\* response of the create call that made the wallet and in no later response
\* for it (get, import, upsert, award, spend).
C17_PassphraseOnlyAtCreate ==
  /\ last.op # "create" => ~Echoes(body)
  /\ (last.op = "create" /\ last.code = 200)
       => \E r \in rows : r.id = last.id /\ JoinSp(body.words) = r.words

\* a generated wallet was read back, and the response is without its words
C17_Withheld ==
  \E r \in rows, b \in GenBytes :
    /\ r.words = JoinSp(genWords(b))
    /\ last = Resp("get", 200, "ok", r.id)
    /\ body = Returning(r)
    /\ "words" \notin DOMAIN body

\* C18: balance conservation, step by step: an award/earn that answers
\* success adds exactly the amount of the request to the wallet's balance, a
\* spend that answers success takes exactly its amount off, and a request
\* that fails changes no balance; so every balance is the balance at creation
\* plus the successful awards minus the successful spends.
C18_BalanceConservation ==
  [][/\ \A address \in MemAddresses, a \in MemAmounts :
          (variant = "mem" /\ last'.op = "award" /\ MemEarn(address, a))
            => IF last'.code = 200
                 THEN wallets' = [wallets EXCEPT ![last'.id].balance = @ + a.n]
               ELSE wallets' = wallets
     /\ \A address \in MemAddresses, a \in MemAmounts :
          (variant = "mem" /\ last'.op = "spend" /\ MemSpend(address, a))
            => IF last'.code = 200
                 THEN wallets' = [wallets EXCEPT ![last'.id].balance = @ - a.n]
               ELSE wallets' = wallets
     /\ \A id \in DbIds, a \in DbAmounts :
          (variant = "db" /\ last'.op = "award" /\ DbAward(id, a))
            => IF last'.code = 200
                 THEN /\ a.t = "num"
                      /\ rows' = {[r EXCEPT !.balance = IF r.id = id THEN @ + a.n
                                                        ELSE @] : r \in rows}
                 ELSE rows' = rows
     /\ \A c \in Suspended :
          (variant = "db" /\ last'.op = "spend" /\ DbSpendUpdate(c))
            => IF last'.code = 200
                 THEN rows' = {[r EXCEPT !.balance = IF r.id = c.id THEN @ - c.amount
                                                        ELSE @] : r \in rows}
               ELSE rows' = rows
     /\ \A id \in DbIds, a \in DbAmounts :
          (variant = "db" /\ DbSpendSelect(id, a)) => rows' = rows]_vars

\* the rows whose words are what a generate call returns, joined by spaces
Generated == {r \in rows : r.words \in GenPhrases}

\* the response names the wallet r, with r's address and balance
Resolves(r) ==
  /\ last'.id = r.id
  /\ body'.id = r.id
  /\ body'.address = r.address
  /\ body'.balance = r.balance
  /\ \E q \in rows' : q.id = r.id /\ q.address = r.address /\ q.balance = r.balance

\* C19: for every wallet made by generate, an import of its 12 words joined
\* by single spaces, and an upsert of the same phrase (with the nickname an
\* upsert needs), answer (a failing store aside) with that same wallet, same
\* id and address, its balance unchanged, and create no new wallet.
C19_GenerateImportRoundTrip ==
  [][(variant = "db" /\ last'.op \in {"import", "upsert"} /\ inflight' = inflight)
       => \A r \in Generated :
            /\ (last'.op = "import" /\ DbImportSelect(JStr(r.words)))
                 => /\ rows' = rows
                    /\ last'.code \in {200, 500}
                    /\ last'.code = 200 => Resolves(r)
            /\ \A n \in GenNicknames :
                 (last'.op = "upsert" /\ DbUpsert(n, JStr(r.words)))
                   => /\ {q.id : q \in rows'} = {q.id : q \in rows}
                      /\ last'.code \in {200, 500}
                      /\ last'.code = 200 => Resolves(r)]_vars

\* a generated wallet, awarded to, was imported by its words
C19_Imported ==
  \E r \in Generated :
    /\ r.alias = Gen
    /\ r.balance > 0
    /\ last = Resp("import", 200, "ok", r.id)
    /\ accesses = 1
    /\ body = Returning(r)

\* the addresses and ids of requests that name no wallet
NoSuchAddress ==
  {a \in MemAddresses : a # NoId /\ \A k \in DOMAIN wallets : wallets[k].address # a}
NoSuchId == {id \in DbIds : \A r \in rows : r.id # id}

\* C20: get by address or id, award/earn and spend with a valid amount, of a
\* wallet that does not exist answer NotFound (a failing store aside) and
\* leave the set of wallets what it was: no wallet record is created.
\* (Every step answers so and keeps the wallets, or it is not such a request.)
C20_MissingWalletNotFound ==
  [][(last'.op \in {"get", "award", "spend"} /\ inflight' = inflight)
       => /\ variant = "mem"
               => \/ last'.code = 404 /\ wallets' = wallets
                  \/ ~\E address \in NoSuchAddress :
                        \/ MemGet(address)
                        \/ \E a \in MemAmounts :
                             /\ Positive(a)
                             /\ MemEarn(address, a) \/ MemSpend(address, a)
          /\ variant = "db"
               => \/ last'.code \in {404, 500} /\ rows' = rows
                  \/ ~\E id \in NoSuchId :
                        \/ DbGet(id)
                        \/ \E a \in DbAmounts :
                             /\ Positive(a)
                             /\ ~BadAmount(ParseAmount(a))
                             /\ DbAward(id, a) \/ DbSpendSelect(id, a)]_vars

\* with a wallet in the Map, an earn for an address of no wallet was refused
C20_Refused ==
  /\ DOMAIN wallets # {}
  /\ last = Resp("award", 404, "Wallet not found.", NoId)
  /\ accesses = 1
  /\ body = ErrorBody("Wallet not found.")

====
